---- MODULE Spec2Model ----
(***************************************************************************)
(* chemlab/core/system.py: the System entity, its derived molecule         *)
(* bookkeeping (mol_indices, mol_n_atoms), the bulk constructor            *)
(* System.from_arrays, the selection dispatch System.where with its two    *)
(* wrappers, and merge_systems.                                            *)
(*                                                                         *)
(* A System is a record                                                    *)
(*   dimensions  : [molecule, atom]         the dimension registry         *)
(*   maps        : [set, value]             the ('atom','molecule') map    *)
(*   attrs       : attribute name -> array  the declared Attributes        *)
(*   box_vectors : None or an object reference                             *)
(* A call's outcome is a record [kind, exc, sys]: kind is "system" (an     *)
(* instance was returned), "none" (the call returned None) or "raised".    *)
(***************************************************************************)
EXTENDS Integers, Sequences, FiniteSets, TLC

VARIABLES sysa, sysb, call, res

vars == <<sysa, sysb, call, res>>

\* Bounds of the model.
MaxAtoms == 3
MaxMol == 2

AtomTypes == {"O", "H"}

None == "None"

\* An object reference a caller may pass as box_vectors.
BoxRefs == {"box1"}

(***************************************************************************)
(*                     numpy and list primitives                           *)
(***************************************************************************)

\* np.ediff1d: the differences between consecutive elements.
ediff1d(s) ==
    IF Len(s) < 2 THEN <<>> ELSE [i \in 1..(Len(s) - 1) |-> s[i + 1] - s[i]]

\* np.nonzero(steps)[0]: the 0-based positions of the non-zero entries.
nonzero(s) == SelectSeq([i \in 1..Len(s) |-> i - 1], LAMBDA k : s[k + 1] # 0)

\* [x] * m: list repetition; a count below 1 gives the empty list.
ListRepeat(x, m) == IF m < 1 THEN <<>> ELSE [k \in 1..m |-> x]

\* sum(lists, []): the lists chained in order.
RECURSIVE SumLists(_)
SumLists(ls) == IF ls = <<>> THEN <<>> ELSE Head(ls) \o SumLists(Tail(ls))

(***************************************************************************)
(*                          the System schema                              *)
(***************************************************************************)

\* System.__attributes__, each with the dimension it is indexed by.
Attributes == {"r_array", "type_array", "charge_array", "molecule_name"}

AttrDim(name) == IF name = "molecule_name" THEN "molecule" ELSE "atom"

\* The fill value of freshly allocated storage.
AttrDefault(name) == IF name \in {"type_array", "molecule_name"} THEN "" ELSE 0

NoSystem ==
    [dimensions |-> [molecule |-> -1, atom |-> -1],
     maps |-> [set |-> FALSE, value |-> <<>>],
     attrs |-> [a \in Attributes |-> <<>>],
     box_vectors |-> None]

Returned(s) == [kind |-> "system", exc |-> "", sys |-> s]

ReturnedNone == [kind |-> "none", exc |-> "", sys |-> NoSystem]

Raised(e) == [kind |-> "raised", exc |-> e, sys |-> NoSystem]

\* System.empty(molecule, atom): default-filled storage for every declared
\* Attribute, sized by the given dimensions. No ('atom','molecule') map is
\* set up: from_arrays has to install it after calling empty.
SystemEmpty(molecule, atom) ==
    LET dims == [molecule |-> molecule, atom |-> atom]
    IN  [dimensions |-> dims,
         maps |-> [set |-> FALSE, value |-> <<>>],
         attrs |-> [a \in Attributes |->
                       [k \in 1..dims[AttrDim(a)] |-> AttrDefault(a)]],
         box_vectors |-> None]

\* The setter of a declared Attribute: the value's leading axis must have
\* the live size of the attribute's dimension.
AttrShapeOk(s, name, val) == Len(val) = s.dimensions[AttrDim(name)]

n_mol(s) == s.dimensions.molecule

n_atoms(s) == s.dimensions.atom

\* The mutant of mol_indices: the leading 1 is not inserted before the steps.
mol_indices_no_insert(s) == nonzero(ediff1d(s.maps.value))

\* System.mol_indices: np.nonzero(np.insert(np.ediff1d(map), 0, 1))[0].
mol_indices(s) == nonzero(<<1>> \o ediff1d(s.maps.value))

\* The mutant of mol_n_atoms: the map's length is not appended to the offsets.
mol_n_atoms_no_end(s) == ediff1d(mol_indices(s))

\* System.mol_n_atoms: np.ediff1d(np.append(mol_indices, len(map))).
mol_n_atoms(s) == ediff1d(Append(mol_indices(s), Len(s.maps.value)))

(***************************************************************************)
(*                        System.from_arrays                               *)
(***************************************************************************)

\* The value given to the ('atom','molecule') map: molecule i repeated
\* mol_sizes[i] times, mol_sizes the differences of mol_indices + [n_atoms].
MapValue(mol_idx, natoms) ==
    LET mol_sizes == ediff1d(mol_idx \o <<natoms>>)
    IN  SumLists([i \in 1..Len(mol_sizes) |-> ListRepeat(i - 1, mol_sizes[i])])

\* The keyword arguments left after popping mol_indices, applied by setattr.
SetKwargs(inst, kwargs) ==
    LET rest == DOMAIN kwargs \ {"mol_indices"}
        bad == {k \in rest \cap Attributes : ~AttrShapeOk(inst, k, kwargs[k])}
        withAttrs == [inst EXCEPT !.attrs =
                         [a \in Attributes |->
                             IF a \in rest THEN kwargs[a] ELSE inst.attrs[a]]]
    IN  IF bad # {} THEN Raised("ShapeMismatch")
        ELSE IF "box_vectors" \in rest
             THEN Returned([withAttrs EXCEPT !.box_vectors = kwargs["box_vectors"]])
             ELSE Returned(withAttrs)

\* The mutant of from_arrays: a missing type_array is taken as no atoms
\* instead of being refused.
from_arrays_type_optional(kwargs) ==
    IF "mol_indices" \notin DOMAIN kwargs
    THEN Raised("mol_indices is a required argument.")
    ELSE LET given == [k \in DOMAIN kwargs \cup {"type_array"} |->
                          IF k \in DOMAIN kwargs THEN kwargs[k] ELSE <<>>]
             inst == SystemEmpty(Len(given["mol_indices"]), Len(given["type_array"]))
             mapped == [inst EXCEPT !.maps =
                           [set |-> TRUE,
                            value |-> MapValue(given["mol_indices"], n_atoms(inst))]]
         IN  SetKwargs(mapped, given)

\* System.from_arrays(**kwargs). The ('bond','molecule') map it also
\* installs is read by nothing modelled here and is left out.
from_arrays(kwargs) ==
    IF "mol_indices" \notin DOMAIN kwargs
    THEN Raised("mol_indices is a required argument.")
    ELSE IF "type_array" \notin DOMAIN kwargs
    THEN Raised("type_array is a required argument.")
    ELSE LET inst == SystemEmpty(Len(kwargs["mol_indices"]), Len(kwargs["type_array"]))
             mapped == [inst EXCEPT !.maps =
                           [set |-> TRUE,
                            value |-> MapValue(kwargs["mol_indices"], n_atoms(inst))]]
         IN  SetKwargs(mapped, kwargs)

(***************************************************************************)
(*              sub-selection: sub_dimension and System.where              *)
(***************************************************************************)

\* A selection is a list of integer indices or a boolean mask:
\* [kind |-> "index" or "mask", val |-> the list].
IndexSel(idx) == [kind |-> "index", val |-> idx]

MaskSel(mask) == [kind |-> "mask", val |-> mask]

\* The indices a selection names along a dimension of size n, or an
\* IndexError: an index out of range, a mask of another length.
SelectionOk(selection, n) ==
    IF selection.kind = "mask"
    THEN Len(selection.val) = n
    ELSE \A i \in 1..Len(selection.val) : selection.val[i] \in 0..(n - 1)

SelectionIndices(selection) ==
    IF selection.kind = "mask"
    THEN SelectSeq([i \in 1..Len(selection.val) |-> i - 1],
                   LAMBDA k : selection.val[k + 1])
    ELSE selection.val

\* The positions (from 1) of the atoms the map gives to molecule j.
AtomsOf(s, j) ==
    SelectSeq([i \in 1..Len(s.maps.value) |-> i], LAMBDA i : s.maps.value[i] = j)

\* sub_dimension(selection, 'molecule'): a new instance holding the selected
\* molecules in the order given, the atoms that map into them, and the map
\* re-indexed to the compacted numbering.
sub_dimension(s, selection) ==
    IF ~SelectionOk(selection, n_mol(s)) THEN Raised("IndexError")
    ELSE LET idx == SelectionIndices(selection)
             picked == SumLists([k \in 1..Len(idx) |-> AtomsOf(s, idx[k])])
             newmap == SumLists([k \in 1..Len(idx) |->
                           ListRepeat(k - 1, Len(AtomsOf(s, idx[k])))])
         IN  IF \E k \in 1..Len(picked) : picked[k] > n_atoms(s)
             THEN Raised("IndexError")
             ELSE Returned(
                    [dimensions |-> [molecule |-> Len(idx), atom |-> Len(picked)],
                     maps |-> [set |-> TRUE, value |-> newmap],
                     attrs |-> [a \in Attributes |->
                                  IF AttrDim(a) = "atom"
                                  THEN [k \in 1..Len(picked) |-> s.attrs[a][picked[k]]]
                                  ELSE [k \in 1..Len(idx) |-> s.attrs[a][idx[k] + 1]]],
                     box_vectors |-> s.box_vectors])

\* The mutant of where: atom_index dispatched like molecule_index.
where_any_keyword(s, kwargs) ==
    IF "molecule_index" \in DOMAIN kwargs
    THEN sub_dimension(s, kwargs["molecule_index"])
    ELSE IF "atom_index" \in DOMAIN kwargs
    THEN sub_dimension(s, kwargs["atom_index"])
    ELSE ReturnedNone

\* System.where(**kwargs): the loop returns at the molecule_index keyword;
\* any other keyword is passed over and the method falls off its end.
\* (stmt is 'molecule_index' compares identities: both strings are interned
\* when the keyword is written in the call, as every caller here does.)
where(s, kwargs) ==
    IF "molecule_index" \in DOMAIN kwargs
    THEN sub_dimension(s, kwargs["molecule_index"])
    ELSE ReturnedNone

subsystem_from_molecules(orig, selection) ==
    where(orig, [k \in {"molecule_index"} |-> selection])

subsystem_from_atoms(orig, selection) ==
    where(orig, [k \in {"atom_index"} |-> selection])

(***************************************************************************)
(*                           merge_systems                                 *)
(***************************************************************************)

\* Reading the mol_indices property of s: it indexes s.maps with
\* ('atom','molecule'), which fails on an instance that has no such map.
MolIndicesReadable(s) == s.maps.set

\* sysres.mol_n_atoms = value: mol_n_atoms is a property with a getter only,
\* so the assignment raises and stores nothing.
SetMolNAtoms(s, value) == Raised("AttributeError")

\* type(sysa).attributes: attr.assign(sysres, attr.concatenate(sysa, sysb)).
AssignConcatenated(sysres, a, b) ==
    LET joined == [n \in Attributes |-> a.attrs[n] \o b.attrs[n]]
    IN  IF \E n \in Attributes : ~AttrShapeOk(sysres, n, joined[n])
        THEN Raised("ShapeMismatch")
        ELSE Returned([sysres EXCEPT !.attrs = joined])

\* sel = np.ones(len(sysa.r_array), dtype=bool); sel[p] = False.
OverlapMask(a, p) ==
    MaskSel([i \in 1..Len(a.attrs["r_array"]) |-> (i - 1) \notin p])

\* merge_systems(sysa, sysb, bounding); p is what overlapping_points
\* reports: any set of atom indices of sysa (the detector is external).
\* Lines 321-323 read mol_indices of sysa, sysres and sysb, and store into
\* the arrays the property has just computed, not into sysres; line 324
\* assigns to the read-only property mol_n_atoms, so that the return of
\* line 328 is reached on no path.
merge_systems(a, b, bounding, p) ==
    LET trimmed == IF bounding # "False"
                   THEN subsystem_from_atoms(a, OverlapMask(a, p))
                   ELSE Returned(a)
    IN  IF trimmed.kind = "raised" THEN trimmed
        ELSE IF trimmed.kind = "none" THEN Raised("AttributeError")
        ELSE LET sa == trimmed.sys
                 sysres == AssignConcatenated(
                               SystemEmpty(n_mol(sa) + n_mol(b),
                                           n_atoms(sa) + n_atoms(b)), sa, b)
             IN  IF sysres.kind = "raised" THEN sysres
                 ELSE IF ~MolIndicesReadable(sa) \/ ~MolIndicesReadable(sysres.sys)
                      \/ ~MolIndicesReadable(b)
                 THEN Raised("KeyError")
                 ELSE LET stored == SetMolNAtoms(sysres.sys,
                                        mol_n_atoms(sa) \o mol_n_atoms(b))
                      IN  IF stored.kind = "raised" THEN stored
                          ELSE Returned([stored.sys EXCEPT
                                            !.box_vectors = sa.box_vectors])

(***************************************************************************)
(*                       the calls the model makes                         *)
(***************************************************************************)

SeqsUpTo(S, n) == UNION {[1..k -> S] : k \in 0..n}

Restrict(f, D) == [k \in D |-> f[k]]

\* r_array values: one coordinate per atom, here the atom's position on a line.
Coordinates == {[i \in 1..n |-> i - 1] : n \in 0..MaxAtoms}

AllKwargs ==
    [mol_indices : SeqsUpTo(0..MaxAtoms, MaxMol),
     type_array : SeqsUpTo(AtomTypes, MaxAtoms),
     r_array : Coordinates,
     box_vectors : BoxRefs]

\* Every keyword combination from_arrays is called with; mol_indices is any
\* list of offsets, valid or not: from_arrays checks nothing about it.
KwargsSet ==
    {Restrict(kw, D) : kw \in AllKwargs,
                       D \in SUBSET {"mol_indices", "type_array", "r_array"}}

\* The last call: its name and arguments, and the systems it was given as
\* they were when it was made.
NoCall ==
    [op |-> "none", kwargs |-> <<>>, bounding |-> None, p |-> {},
     a |-> NoSystem, b |-> NoSystem]

Init ==
    /\ sysa = NoSystem
    /\ sysb = NoSystem
    /\ call = NoCall
    /\ res = ReturnedNone

\* A script builds its systems and then makes one call on them. No call
\* changes a system it is given, so a second call reaches no new state.
Building == call.op \in {"none", "from_arrays"} /\ res.kind # "raised"

Running == Building /\ sysa # NoSystem

\* slot = System.from_arrays(**kwargs), for a slot not yet bound; the slot
\* stays unbound when the call raises.
FromArrays(slot, K) ==
    /\ Building
    /\ (IF slot = "a" THEN sysa ELSE sysb) = NoSystem
    /\ \E kwargs \in K :
        /\ res' = from_arrays(kwargs)
        /\ call' = [NoCall EXCEPT !.op = "from_arrays", !.kwargs = kwargs]
        /\ IF slot = "a"
           THEN sysa' = res'.sys /\ UNCHANGED sysb
           ELSE sysb' = res'.sys /\ UNCHANGED sysa

\* The selections a caller passes along a dimension of size n: every mask of
\* that length, one mask too long, and the lists of no, one and two indices
\* over 0..n (n itself is out of range).
Selections(n) ==
    {MaskSel(m) : m \in [1..n -> BOOLEAN]}
        \cup {MaskSel([i \in 1..(n + 1) |-> TRUE])}
        \cup {IndexSel(<<>>)}
        \cup {IndexSel(<<i>>) : i \in 0..n}
        \cup {IndexSel(<<i, j>>) : i \in 0..n, j \in 0..n}

AllMask(n) == MaskSel([i \in 1..n |-> TRUE])

\* The keyword combinations where is called with on system s: none,
\* molecule_index alone, atom_index alone, and both.
WhereKwargs(s) ==
    LET both == [molecule_index : Selections(n_mol(s)),
                 atom_index : {AllMask(n_atoms(s))}]
    IN  {Restrict(kw, D) : kw \in both,
                           D \in SUBSET {"molecule_index", "atom_index"}}
            \cup {[k \in {"atom_index"} |-> a] : a \in Selections(n_atoms(s))}

\* res = sysa.where(**kwargs)
Where ==
    /\ Running
    /\ \E kwargs \in WhereKwargs(sysa) :
        /\ res' = where(sysa, kwargs)
        /\ call' = [NoCall EXCEPT !.op = "where", !.kwargs = kwargs, !.a = sysa]
    /\ UNCHANGED <<sysa, sysb>>

\* res = subsystem_from_molecules(sysa, selection)
SubsystemFromMolecules ==
    /\ Running
    /\ \E selection \in Selections(n_mol(sysa)) :
        /\ res' = subsystem_from_molecules(sysa, selection)
        /\ call' = [NoCall EXCEPT !.op = "subsystem_from_molecules",
                                  !.kwargs = [k \in {"selection"} |-> selection],
                                  !.a = sysa]
    /\ UNCHANGED <<sysa, sysb>>

\* res = subsystem_from_atoms(sysa, selection)
SubsystemFromAtoms ==
    /\ Running
    /\ \E selection \in Selections(n_atoms(sysa)) :
        /\ res' = subsystem_from_atoms(sysa, selection)
        /\ call' = [NoCall EXCEPT !.op = "subsystem_from_atoms",
                                  !.kwargs = [k \in {"selection"} |-> selection],
                                  !.a = sysa]
    /\ UNCHANGED <<sysa, sysb>>

BoundingValues == {"False", "0.2"}

\* res = merge_systems(sysa, sysb, bounding), the overlap detector
\* reporting the atoms p of sysa.
MergeSystems ==
    /\ Running
    /\ sysb # NoSystem
    /\ \E bounding \in BoundingValues :
       \E p \in (IF bounding = "False" THEN {{}}
                 ELSE SUBSET (0..(Len(sysa.attrs["r_array"]) - 1))) :
        /\ res' = merge_systems(sysa, sysb, bounding, p)
        /\ call' = [NoCall EXCEPT !.op = "merge_systems",
                                  !.bounding = bounding, !.p = p,
                                  !.a = sysa, !.b = sysb]
    /\ UNCHANGED <<sysa, sysb>>

Next ==
    \/ FromArrays("a", KwargsSet)
    \/ Where
    \/ SubsystemFromMolecules
    \/ SubsystemFromAtoms

Spec == Init /\ [][Next]_vars

\* The systems merge_systems is given: built by from_arrays from offsets
\* that start at 0 and rise, each below the atom count, so that every
\* molecule owns at least one atom.
WellFormedOffsets(m, n) ==
    /\ m # <<>> /\ m[1] = 0
    /\ \A i \in 1..Len(m) : m[i] < n
    /\ \A i \in 1..(Len(m) - 1) : m[i] < m[i + 1]

WellFormedKwargs ==
    {kw \in {Restrict(kw, D) : kw \in AllKwargs,
                D \in {{"mol_indices", "type_array"},
                       {"mol_indices", "type_array", "box_vectors"}}} :
        WellFormedOffsets(kw["mol_indices"], Len(kw["type_array"]))}

NextMerge ==
    \/ FromArrays("a", WellFormedKwargs)
    \/ FromArrays("b", WellFormedKwargs)
    \/ MergeSystems

SpecMerge == Init /\ [][NextMerge]_vars

(***************************************************************************)
(*                              the claims                                 *)
(***************************************************************************)

BuiltByFromArrays == call.op = "from_arrays" /\ res.kind = "system"

GivenOffsets == call.kwargs["mol_indices"]

GivenAtoms == Len(call.kwargs["type_array"])

\* Offsets within the atoms that never decrease.
Ascending(m, n) ==
    /\ \A i \in 1..Len(m) : m[i] \in 0..n
    /\ \A i \in 1..(Len(m) - 1) : m[i] <= m[i + 1]

\* Offsets of molecules that each own at least one atom: at least one
\* offset, each offset below the next, the last below the atom count.
EveryMoleculeOwnsAtoms(m, n) ==
    /\ m # <<>>
    /\ \A i \in 1..Len(m) : m[i] \in 0..(n - 1)
    /\ \A i \in 1..(Len(m) - 1) : m[i] < m[i + 1]

SuccessiveDifferences(m, n) ==
    [i \in 1..Len(m) |-> IF i < Len(m) THEN m[i + 1] - m[i] ELSE n - m[i]]

Water == <<"O", "H", "H">>

ThreeWaters == [mol_indices |-> <<0, 3, 6>>, type_array |-> Water \o Water \o Water]

SevenAtoms ==
    [mol_indices |-> <<0, 2, 5>>,
     type_array |-> <<"O", "H", "O", "H", "H", "O", "H">>]

\* C1 (as amended): a System built by from_arrays from N atoms and offsets
\* of molecules that each own at least one atom has mol_n_atoms equal to the
\* successive differences of the offsets, the last size being N minus the
\* last offset; [0,3,6] with 9 atoms gives [3,3,3], [0,2,5] with 7 gives
\* [2,3,2].
C1_MolNAtomsOfNonEmptyMolecules ==
    /\ (BuiltByFromArrays /\ EveryMoleculeOwnsAtoms(GivenOffsets, GivenAtoms))
           => mol_n_atoms(res.sys) = SuccessiveDifferences(GivenOffsets, GivenAtoms)
    /\ mol_n_atoms(from_arrays(ThreeWaters).sys) = <<3, 3, 3>>
    /\ mol_n_atoms(from_arrays(SevenAtoms).sys) = <<2, 3, 2>>

\* C1 as stated: the same for every ascending list of offsets (here, of at
\* least one molecule).
C1_MolNAtomsOfAscendingOffsets ==
    (BuiltByFromArrays /\ GivenOffsets # <<>> /\ Ascending(GivenOffsets, GivenAtoms))
        => mol_n_atoms(res.sys) = SuccessiveDifferences(GivenOffsets, GivenAtoms)

C1_Witness ==
    /\ BuiltByFromArrays
    /\ EveryMoleculeOwnsAtoms(GivenOffsets, GivenAtoms)
    /\ Len(GivenOffsets) = 2
    /\ GivenOffsets[1] > 0
    /\ mol_n_atoms(res.sys) = <<1, 1>>

\* C5: from_arrays raises and returns no instance whenever mol_indices or
\* type_array is not among the keywords, whatever else is given.
C5_RequiredKeywords ==
    (call.op = "from_arrays"
        /\ ~({"mol_indices", "type_array"} \subseteq DOMAIN call.kwargs))
        => (res.kind = "raised" /\ res.sys = NoSystem /\ sysa = NoSystem)

C5_Witness ==
    /\ call.op = "from_arrays"
    /\ DOMAIN call.kwargs = {"mol_indices", "r_array"}
    /\ res.kind = "raised"

C8_MapCoversEveryAtom ==
    (BuiltByFromArrays /\ GivenOffsets # <<>>)
        => LET map == res.sys.maps.value
           IN  /\ Len(map) = n_atoms(res.sys)
               /\ \A i \in 1..Len(map) : map[i] \in 0..(n_mol(res.sys) - 1)
               /\ \A i \in 1..(Len(map) - 1) : map[i] <= map[i + 1]

\* C9 (as amended): for a System built by from_arrays from offsets that
\* start at 0 and belong to molecules that each own at least one atom, the
\* mol_indices property returns the offsets given, one per molecule.
C9_MolIndicesRoundTrip ==
    (BuiltByFromArrays
        /\ EveryMoleculeOwnsAtoms(GivenOffsets, GivenAtoms)
        /\ GivenOffsets[1] = 0)
        => /\ mol_indices(res.sys) = GivenOffsets
           /\ Len(mol_indices(res.sys)) = n_mol(res.sys)

\* C9 as stated: the same for every ascending list of offsets (here, of at
\* least one molecule), a molecule without atoms or a first offset above 0
\* included.
C9_MolIndicesRoundTripOfAscendingOffsets ==
    (BuiltByFromArrays /\ GivenOffsets # <<>> /\ Ascending(GivenOffsets, GivenAtoms))
        => /\ mol_indices(res.sys) = GivenOffsets
           /\ Len(mol_indices(res.sys)) = n_mol(res.sys)

C9_Witness ==
    /\ BuiltByFromArrays
    /\ GivenOffsets = <<0, 2>>
    /\ GivenAtoms = 3
    /\ mol_indices(res.sys) = <<0, 2>>

\* The molecules of s that own one of the atoms, in their order in s.
MoleculesOwning(s, atoms) ==
    SelectSeq([j \in 1..n_mol(s) |-> j - 1],
              LAMBDA j : \E x \in atoms :
                  x + 1 <= Len(s.maps.value) /\ s.maps.value[x + 1] = j)

MoleculesFreeOf(s, atoms) ==
    SelectSeq([j \in 1..n_mol(s) |-> j - 1],
              LAMBDA j : \A x \in atoms :
                  ~(x + 1 <= Len(s.maps.value) /\ s.maps.value[x + 1] = j))

SelectedSet(selection) ==
    {SelectionIndices(selection)[i] : i \in 1..Len(SelectionIndices(selection))}

\* C4: subsystem_from_atoms, given a selection with an atom that a molecule
\* owns, returns a new System holding, in full, every molecule that owns a
\* selected atom.
C4_AtomSelectionTakesWholeMolecules ==
    (call.op = "subsystem_from_atoms"
        /\ SelectionOk(call.kwargs["selection"], n_atoms(sysa))
        /\ MoleculesOwning(sysa, SelectedSet(call.kwargs["selection"])) # <<>>)
        => /\ res.kind = "system"
           /\ res = sub_dimension(sysa, IndexSel(
                        MoleculesOwning(sysa, SelectedSet(call.kwargs["selection"]))))

Merged == call.op = "merge_systems"

\* What is left of sysa once the molecules with an overlapping atom are cut.
TrimmedA ==
    IF call.bounding = "False" THEN sysa
    ELSE sub_dimension(sysa, IndexSel(MoleculesFreeOf(sysa, call.p))).sys

\* C2: merge_systems(A, B, bounding=False) returns a system of a+b
\* molecules and x+y atoms whose every attribute is A's values followed by
\* B's.
C2_MergeSizeLaw ==
    (Merged /\ call.bounding = "False")
        => /\ res.kind = "system"
           /\ n_mol(res.sys) = n_mol(sysa) + n_mol(sysb)
           /\ n_atoms(res.sys) = n_atoms(sysa) + n_atoms(sysb)
           /\ \A n \in Attributes : res.sys.attrs[n] = sysa.attrs[n] \o sysb.attrs[n]

\* C3: with bounding not False and atoms of A reported as overlapping,
\* merge_systems returns the molecules of A that own no such atom, whole and
\* in order, followed by B's.
C3_OverlapCutsWholeMolecules ==
    (Merged /\ call.bounding # "False" /\ call.p # {})
        => /\ res.kind = "system"
           /\ n_mol(res.sys) = n_mol(TrimmedA) + n_mol(sysb)
           /\ \A n \in Attributes :
                  res.sys.attrs[n] = TrimmedA.attrs[n] \o sysb.attrs[n]

\* C7: the result of merge_systems reads mol_indices as sysa's offsets
\* followed by sysb's moved up by sysa's atom count, and mol_n_atoms as
\* sysa's sizes followed by sysb's.
C7_MergeBookkeeping ==
    Merged
        => /\ res.kind = "system"
           /\ mol_indices(res.sys) =
                  mol_indices(TrimmedA) \o
                      [i \in 1..Len(mol_indices(sysb)) |->
                          mol_indices(sysb)[i] + n_atoms(TrimmedA)]
           /\ mol_n_atoms(res.sys) = mol_n_atoms(TrimmedA) \o mol_n_atoms(sysb)

\* C10: merge_systems returns a new instance, leaves sysa and sysb as they
\* were, and the result holds no object of theirs, box vectors included.
C10_MergeResultIndependent ==
    Merged
        => /\ res.kind = "system"
           /\ sysa = call.a /\ sysb = call.b
           /\ res.sys.box_vectors # None
                  => res.sys.box_vectors \notin {sysa.box_vectors, sysb.box_vectors}

====
